---- MODULE Spec2Model ----
(***************************************************************************)
(* A model of the segtrs crate: the decimal BigInt type (src/bigint.rs),   *)
(* the Fibonacci iterator (src/fib.rs) and the number-theory helpers       *)
(* is_prime and triangular_number (src/numt.rs).                           *)
(*                                                                         *)
(* Spec      - a caller holding two BigInt values a and b, building new    *)
(*             ones with BigInt::new, add and multiply.                    *)
(* SpecFib   - a caller driving one FibonacciIterator.                     *)
(* SpecPrime - calls of is_prime, one pass of its loop at a time.          *)
(* SpecTri   - calls of triangular_number.                                 *)
(***************************************************************************)
EXTENDS Integers, Sequences, FiniteSets, TLC

VARIABLES
    a,        \* digits of the first BigInt the caller holds
    b,        \* digits of the second BigInt the caller holds
    last,     \* what the last BigInt operation was given and what it produced
    iter,     \* the FibonacciIterator: its fields f0 and f1
    calls,    \* how many times next() was called on it
    ret,      \* what the last call of next() returned
    ret1,     \* what the call before it returned
    ret2,     \* what the call before that returned
    prime,    \* the call of is_prime: its argument, where it is, and its outcome
    tri       \* the last call of triangular_number: its argument and its outcome

bigVars == <<a, b, last>>
fibVars == <<iter, calls, ret, ret1, ret2>>
numtVars == <<prime, tri>>
vars == <<a, b, last, iter, calls, ret, ret1, ret2, prime, tri>>

-----------------------------------------------------------------------------
(* Bounds of the model. *)

\* BigInt::new is given every sequence of at most MaxInLen elements of InDigits
\* (and the longer sequences of CaseInputs).
MaxInLen == 1

\* The caller keeps the result of add or multiply only when its value is at most MaxVal.
MaxVal == 20

\* next() is called at most MaxCalls times on the iterator.
MaxCalls == 120

\* is_prime is modelled on an unsigned integer of WordBits bits. Its loop
\* takes up to 2^(w/2) steps on a word of w bits, which puts the 64 bits of
\* u64 out of reach; what the loop does at the top of the range is the same
\* at every width: k * k is computed for k = 2^(w/2) when n is a prime above
\* (2^(w/2) - 1)^2.
WordBits == 8

\* triangular_number is given 0..MaxTriSmall, and TriWindow + 1 successive
\* values from each element of TriLows.
MaxTriSmall == 60
TriWindow == 16

-----------------------------------------------------------------------------
(* u8 arithmetic *)

\* The largest u8, the element type of BigInt::digits.
U8Max == 255

Max(x, y) == IF x >= y THEN x ELSE y

\* What a u8 computation that reached the mathematical value v leaves in the
\* variable when overflow checks are off (with them on, the operation panics;
\* the operations record that in their overflow field).
WrapU8(v) == v % (U8Max + 1)

-----------------------------------------------------------------------------
(* BigInt::new *)

\* The elements BigInt::new is given: digits, and values that are no digit.
InDigits == {0, 1, 9, 10}

\* The sequences of the crate's tests and doc examples, the two-digit
\* sequence of nines (the largest digits and carries), and the largest u8.
CaseInputs ==
    { <<7, 8, 9, 10>>, <<7, 8, 9, 0, 0, 0>>, <<0, 0, 0>>, <<1, 3, 0>>,
      <<7, 8, 9, 1>>, <<5, 4, 3>>, <<2, 1>>, <<5, 2>>, <<8, 9>>,
      <<9, 9>>, <<3, U8Max>> }

Inputs == (UNION { [1..n -> InDigits] : n \in 0..MaxInLen }) \cup CaseInputs

\* while digits.len() > 0 && *digits.last().unwrap() == 0 { digits.pop(); }
\* with `if` in place of `while`.
pop_zeros_once(d) ==
    IF Len(d) > 0 /\ d[Len(d)] = 0 THEN SubSeq(d, 1, Len(d) - 1) ELSE d

RECURSIVE pop_zeros(_)
\* while digits.len() > 0 && *digits.last().unwrap() == 0 { digits.pop(); }
pop_zeros(d) ==
    IF Len(d) > 0 /\ d[Len(d)] = 0
    THEN pop_zeros(SubSeq(d, 1, Len(d) - 1))
    ELSE d

\* BigInt::new without the loop that eliminates the leading zeros.
new_keeps_zeros(it) ==
    IF \E i \in 1..Len(it) : it[i] > 9
    THEN [outcome |-> "panic", digits |-> <<>>]
    ELSE [outcome |-> "ok", digits |-> IF Len(it) > 0 THEN it ELSE <<0>>]

\* BigInt::new with the test `*d > 10` in place of `*d > 9`.
new_accepts_ten(it) ==
    IF \E i \in 1..Len(it) : it[i] > 10
    THEN [outcome |-> "panic", digits |-> <<>>]
    ELSE LET d == pop_zeros(it)
         IN  [outcome |-> "ok", digits |-> IF Len(d) > 0 THEN d ELSE <<0>>]

\* BigInt::new(it). outcome is "panic" when the call panics (no BigInt is
\* produced, digits is empty), and "ok" when it returns BigInt { digits }.
new(it) ==
    IF \E i \in 1..Len(it) : it[i] > 9
    THEN [outcome |-> "panic", digits |-> <<>>]
    ELSE LET d == pop_zeros(it)
         IN  [outcome |-> "ok", digits |-> IF Len(d) > 0 THEN d ELSE <<0>>]

-----------------------------------------------------------------------------
(* BigInt::add *)

\* What a run of add has seen so far: the largest temp, the largest carry,
\* and whether a u8 addition overflowed.
NoPeaks == [temp |-> 0, carry |-> 0, overflow |-> FALSE]

\* The body of `for i in 0..max_len`, with `carry = temp` in place of
\* `carry = temp / 10`.
RECURSIVE add_digits_keeps_temp(_, _, _, _, _, _)
add_digits_keeps_temp(sd, od, i, carry, result, pk) ==
    IF i >= Max(Len(sd), Len(od))
    THEN [carry |-> carry, result |-> result, pk |-> pk]
    ELSE LET t0    == carry
             t1    == WrapU8(t0) + (IF i < Len(sd) THEN sd[i + 1] ELSE 0)
             t2    == WrapU8(t1) + (IF i < Len(od) THEN od[i + 1] ELSE 0)
             temp  == WrapU8(t2)
             digit == temp % 10
             c     == temp
         IN  add_digits_keeps_temp(sd, od, i + 1, c, Append(result, digit),
                 [temp     |-> Max(pk.temp, Max(t1, t2)),
                  carry    |-> Max(pk.carry, c),
                  overflow |-> pk.overflow \/ t1 > U8Max \/ t2 > U8Max])

\* for i in 0..max_len { temp = carry; temp += self[i] or 0; temp += other[i] or 0;
\*                       digit = temp % 10; carry = temp / 10; result.push(digit) }
\* i counts from 0 as in the source; sequences are indexed from 1.
RECURSIVE add_digits(_, _, _, _, _, _)
add_digits(sd, od, i, carry, result, pk) ==
    IF i >= Max(Len(sd), Len(od))
    THEN [carry |-> carry, result |-> result, pk |-> pk]
    ELSE LET t0    == carry
             t1    == WrapU8(t0) + (IF i < Len(sd) THEN sd[i + 1] ELSE 0)
             t2    == WrapU8(t1) + (IF i < Len(od) THEN od[i + 1] ELSE 0)
             temp  == WrapU8(t2)
             digit == temp % 10
             c     == temp \div 10
         IN  add_digits(sd, od, i + 1, c, Append(result, digit),
                 [temp     |-> Max(pk.temp, Max(t1, t2)),
                  carry    |-> Max(pk.carry, c),
                  overflow |-> pk.overflow \/ t1 > U8Max \/ t2 > U8Max])

\* The loop `while carry > 0` left out.
push_carry_dropped(carry, result) == result

RECURSIVE push_carry(_, _)
\* while carry > 0 { digit = carry % 10; carry = carry / 10; result.push(digit) }
push_carry(carry, result) ==
    IF carry > 0
    THEN push_carry(carry \div 10, Append(result, carry % 10))
    ELSE result

\* self.add(other) on digit sequences: the digits of the BigInt returned and
\* what the run has seen.
add(sd, od) ==
    LET r == add_digits(sd, od, 0, 0, <<>>, NoPeaks)
    IN  [digits |-> push_carry(r.carry, r.result), pk |-> r.pk]

-----------------------------------------------------------------------------
(* BigInt::multiply *)

\* What a run of multiply has seen so far in its own loops: the largest p,
\* the largest carry, and whether a u8 multiplication or addition overflowed.
NoMulPeaks == [p |-> 0, carry |-> 0, overflow |-> FALSE]

RECURSIVE mul_digits(_, _, _, _, _, _)
\* for b in &other.digits { p = a * b + carry; push(p % 10); carry = p / 10 }
\* j is the position in other.digits, from 1.
mul_digits(x, od, j, carry, product, pk) ==
    IF j > Len(od)
    THEN [carry |-> carry, product |-> product, pk |-> pk]
    ELSE LET m  == x * od[j]
             p0 == WrapU8(m) + carry
             p  == WrapU8(p0)
             c  == p \div 10
         IN  mul_digits(x, od, j + 1, c, Append(product, p % 10),
                 [p        |-> Max(pk.p, Max(m, p0)),
                  carry    |-> Max(pk.carry, c),
                  overflow |-> pk.overflow \/ m > U8Max \/ p0 > U8Max])

RECURSIVE flush_carry(_, _)
\* while carry != 0 { single_digit_product.push(carry % 10); carry /= 10 }
flush_carry(carry, product) ==
    IF carry # 0
    THEN flush_carry(carry \div 10, Append(product, carry % 10))
    ELSE product

\* The body of the outer loop without `for _ in 0..num_zeros { push(0) }`.
single_digit_product_unshifted(num_zeros, x, od, pk) ==
    LET r == mul_digits(x, od, 1, 0, <<>>, pk)
    IN  [product |-> flush_carry(r.carry, r.product), pk |-> r.pk]

\* The body of `for (num_zeros, a) in self.digits().iter().enumerate()`:
\* num_zeros zeros, then a times every digit of other, then the carry left.
single_digit_product(num_zeros, x, od, pk) ==
    LET zeros == [k \in 1..num_zeros |-> 0]
        r     == mul_digits(x, od, 1, 0, zeros, pk)
    IN  [product |-> flush_carry(r.carry, r.product), pk |-> r.pk]

RECURSIVE all_products(_, _, _, _, _)
\* The outer loop: products[k] is the product for self.digits[k - 1].
all_products(sd, od, k, products, pk) ==
    IF k > Len(sd)
    THEN [products |-> products, pk |-> pk]
    ELSE LET r == single_digit_product(k - 1, sd[k], od, pk)
         IN  all_products(sd, od, k + 1, Append(products, r.product), r.pk)

\* The two peak records of add joined.
JoinPeaks(p, q) ==
    [temp     |-> Max(p.temp, q.temp),
     carry    |-> Max(p.carry, q.carry),
     overflow |-> p.overflow \/ q.overflow]

RECURSIVE add_products(_, _, _)
\* for product in products { bigint = BigInt::new(product); result = result.add(&bigint) }
\* acc is [outcome, digits, pk]; a panic of BigInt::new ends the run.
add_products(products, k, acc) ==
    IF k > Len(products) \/ acc.outcome # "ok"
    THEN acc
    ELSE LET bigint == new(products[k])
         IN  IF bigint.outcome # "ok"
             THEN [outcome |-> "panic", digits |-> <<>>, pk |-> acc.pk]
             ELSE LET s == add(acc.digits, bigint.digits)
                  IN  add_products(products, k + 1,
                          [outcome |-> "ok", digits |-> s.digits,
                           pk |-> JoinPeaks(acc.pk, s.pk)])

\* self.multiply(other) on digit sequences.
multiply(sd, od) ==
    LET ps   == all_products(sd, od, 1, <<>>, NoMulPeaks)
        zero == new(<<>>)
        sum  == add_products(ps.products, 1,
                    [outcome |-> zero.outcome, digits |-> zero.digits, pk |-> NoPeaks])
    IN  [outcome |-> sum.outcome, digits |-> sum.digits,
         mulpk |-> ps.pk, addpk |-> sum.pk]

-----------------------------------------------------------------------------
(* u64 arithmetic. A u64 is held exactly, as its limbs in base 10^4, least    *)
(* significant first, with no zero limb at the top (0 is the empty sequence). *)

LimbBase == 10^4

\* u64::MAX = 18446744073709551615
U64Max == <<1615, 955, 737, 6744, 1844>>

\* The limbs of a number below LimbBase.
Small(k) == IF k = 0 THEN <<>> ELSE <<k>>

RECURSIVE LNorm(_)
LNorm(x) ==
    IF Len(x) > 0 /\ x[Len(x)] = 0 THEN LNorm(SubSeq(x, 1, Len(x) - 1)) ELSE x

RECURSIVE LAddC(_, _, _)
LAddC(x, y, c) ==
    IF Len(x) = 0 /\ Len(y) = 0
    THEN Small(c)
    ELSE LET xv == IF Len(x) > 0 THEN x[1] ELSE 0
             yv == IF Len(y) > 0 THEN y[1] ELSE 0
             v  == xv + yv + c
         IN  <<v % LimbBase>> \o
             LAddC(IF Len(x) > 0 THEN Tail(x) ELSE x,
                   IF Len(y) > 0 THEN Tail(y) ELSE y, v \div LimbBase)

\* The sum of two numbers, as a number of any size.
LAdd(x, y) == LNorm(LAddC(x, y, 0))

RECURSIVE LMulSmall(_, _, _)
LMulSmall(x, m, c) ==
    IF Len(x) = 0
    THEN Small(c)
    ELSE LET v == x[1] * m + c
         IN  <<v % LimbBase>> \o LMulSmall(Tail(x), m, v \div LimbBase)

RECURSIVE LMul(_, _)
\* The product of two numbers, as a number of any size.
LMul(x, y) ==
    IF Len(y) = 0
    THEN <<>>
    ELSE LET rest == LMul(x, Tail(y))
         IN  LAdd(LNorm(LMulSmall(x, y[1], 0)),
                  IF Len(rest) = 0 THEN <<>> ELSE <<0>> \o rest)

\* x / 2, rounded down (LimbBase is even).
LHalf(x) ==
    LNorm([i \in 1..Len(x) |->
              x[i] \div 2
              + (IF i < Len(x) /\ x[i + 1] % 2 = 1 THEN LimbBase \div 2 ELSE 0)])

\* x <= y
LLeq(x, y) ==
    IF Len(x) # Len(y)
    THEN Len(x) < Len(y)
    ELSE \A i \in 1..Len(x) :
             (\A j \in (i + 1)..Len(x) : x[j] = y[j]) => x[i] <= y[i]

\* Option<u64>
None == [some |-> FALSE, val |-> <<>>]
Some(v) == [some |-> TRUE, val |-> v]

\* u64::checked_add
checked_add(x, y) ==
    LET s == LAdd(x, y) IN IF LLeq(s, U64Max) THEN Some(s) ELSE None

\* u64::checked_mul
checked_mul(x, y) ==
    LET m == LMul(x, y) IN IF LLeq(m, U64Max) THEN Some(m) ELSE None

-----------------------------------------------------------------------------
(* FibonacciIterator *)

\* FibonacciIterator::new()
FibonacciIterator_new == [f0 |-> Some(Small(0)), f1 |-> Some(Small(1))]

\* next() with `self.f1?` tested as well: the iterator stops as soon as the
\* term after the next one has overflowed.
next_stops_early(self) ==
    IF ~self.f0.some \/ ~self.f1.some
    THEN [self |-> self, ret |-> None]
    ELSE [self |-> [f0 |-> self.f1,
                    f1 |-> checked_add(self.f0.val, self.f1.val)],
          ret  |-> self.f0]

\* FibonacciIterator::next(&mut self): the iterator after the call and the
\* value returned.
next(self) ==
    IF ~self.f0.some
    THEN [self |-> self, ret |-> None]
    ELSE LET nxt == IF self.f0.some /\ self.f1.some
                    THEN checked_add(self.f0.val, self.f1.val)
                    ELSE None
         IN  [self |-> [f0 |-> self.f1, f1 |-> nxt], ret |-> self.f0]

-----------------------------------------------------------------------------
(* numt::is_prime, on a word of WordBits bits *)

WordMax == 2^WordBits - 1

\* The value an operation of mathematical value v leaves in a word when
\* overflow checks are off.
Wrap(v) == v % (WordMax + 1)

\* One pass of `while (k * k) <= n { if (n % k) == 0 { return false; } k += 1; }`
\* from the state st = [pc, n, k, checks, outcome, overflow] with pc = "loop":
\* the test, and the body when the test holds. checks: whether the build
\* panics on overflow (debug) or wraps (release). n % 0 panics in every build.
loop_pass(st) ==
    LET n  == st.n
        k  == st.k
        sq == k * k
        ov == st.overflow \/ sq > WordMax
    IN  IF sq > WordMax /\ st.checks
        THEN [st EXCEPT !.pc = "done", !.outcome = "panic", !.overflow = TRUE]
        ELSE IF Wrap(sq) > n
        THEN [st EXCEPT !.pc = "done", !.outcome = "true", !.overflow = ov]
        ELSE IF k = 0
        THEN [st EXCEPT !.pc = "done", !.outcome = "panic", !.overflow = ov]
        ELSE IF n % k = 0
        THEN [st EXCEPT !.pc = "done", !.outcome = "false", !.overflow = ov]
        ELSE IF k + 1 > WordMax /\ st.checks
        THEN [st EXCEPT !.pc = "done", !.outcome = "panic", !.overflow = TRUE]
        ELSE [st EXCEPT !.k = Wrap(k + 1), !.overflow = ov \/ k + 1 > WordMax]

\* is_prime(n) up to its loop: the two early returns, or k = 3.
is_prime(n, checks) ==
    LET st == [pc |-> "done", n |-> n, k |-> 0, checks |-> checks,
               outcome |-> "none", overflow |-> FALSE]
    IN  IF n = 2
        THEN [st EXCEPT !.outcome = "true"]
        ELSE IF n < 2 \/ n % 2 = 0
        THEN [st EXCEPT !.outcome = "false"]
        ELSE [st EXCEPT !.pc = "loop", !.k = 3]

\* n is prime.
Prime(n) == n >= 2 /\ \A k \in 2..(n - 1) : n % k # 0

-----------------------------------------------------------------------------
(* numt::triangular_number *)

\* Where the windows of arguments start: 2^32 - 8 (n * (n + 1) passes u64::MAX
\* at 2^32), 6074000999 - 8 (n * (n + 1) / 2 passes u64::MAX after 6074000999)
\* and u64::MAX - 16.
TriLows == { <<7288, 9496, 42>>, <<991, 7400, 60>>, <<1599, 955, 737, 6744, 1844>> }

TriInputs ==
    { Small(k) : k \in 0..MaxTriSmall }
    \cup { n \in { LAdd(lo, Small(d)) : lo \in TriLows, d \in 0..TriWindow } :
             LLeq(n, U64Max) }

\* triangular_number(n): Ok(t_n) or Err("overflow").
triangular_number(n) ==
    LET n_plus_1 == checked_add(n, Small(1))
    IN  IF ~n_plus_1.some
        THEN [outcome |-> "err", value |-> <<>>]
        ELSE LET m == checked_mul(n_plus_1.val, n)
             IN  IF ~m.some
                 THEN [outcome |-> "err", value |-> <<>>]
                 ELSE [outcome |-> "ok", value |-> LHalf(m.val)]

-----------------------------------------------------------------------------
(* The value of a digit sequence, and the digits of a value. *)

RECURSIVE Value(_)
\* The sum over i of d[i] * 10^i, i from 0.
Value(d) == IF Len(d) = 0 THEN 0 ELSE d[1] + 10 * Value(Tail(d))

RECURSIVE ToDigits(_)
\* The canonical decimal digits of n, least significant first.
ToDigits(n) == IF n < 10 THEN <<n>> ELSE <<n % 10>> \o ToDigits(n \div 10)

Canonical(d) ==
    /\ Len(d) > 0
    /\ \A i \in 1..Len(d) : d[i] \in 0..9
    /\ d[Len(d)] # 0 \/ d = <<0>>

HasInvalidDigit(s) == \E i \in 1..Len(s) : s[i] < 0 \/ s[i] > 9

-----------------------------------------------------------------------------
(* The caller of BigInt *)

Idle ==
    [op |-> "none", input |-> <<>>, lhs |-> <<>>, rhs |-> <<>>,
     outcome |-> "ok", digits |-> <<>>, addpk |-> NoPeaks, mulpk |-> NoMulPeaks]

Keep(dst, digits) ==
    /\ a' = IF dst = "a" THEN digits ELSE a
    /\ b' = IF dst = "b" THEN digits ELSE b

\* Both values the caller holds start as BigInt::new of the empty sequence;
\* the iterator is FibonacciIterator::new(); nothing was called.
Init ==
    /\ a = new(<<>>).digits
    /\ b = new(<<>>).digits
    /\ last = Idle
    /\ iter = FibonacciIterator_new
    /\ calls = 0
    /\ ret = None
    /\ ret1 = None
    /\ ret2 = None
    /\ prime = [pc |-> "idle", n |-> 0, k |-> 0, checks |-> FALSE,
                outcome |-> "none", overflow |-> FALSE]
    /\ tri = [called |-> FALSE, n |-> <<>>, outcome |-> "none", value |-> <<>>]

\* dst = BigInt::new(s.into_iter()); a panic leaves the caller's values as they are.
New(s, dst) ==
    LET r == new(s)
    IN  /\ last' = [Idle EXCEPT !.op = "new", !.input = s,
                                !.outcome = r.outcome, !.digits = r.digits]
        /\ Keep(IF r.outcome = "ok" THEN dst ELSE "none", r.digits)
        /\ UNCHANGED <<fibVars, numtVars>>

\* dst = a.add(&b), or the sum dropped (dst = "none").
Add(dst) ==
    LET r == add(a, b)
    IN  /\ dst # "none" => Value(r.digits) <= MaxVal
        /\ last' = [Idle EXCEPT !.op = "add", !.lhs = a, !.rhs = b,
                                !.digits = r.digits, !.addpk = r.pk]
        /\ Keep(dst, r.digits)
        /\ UNCHANGED <<fibVars, numtVars>>

\* dst = a.multiply(&b), or the product dropped (dst = "none").
Multiply(dst) ==
    LET r == multiply(a, b)
    IN  /\ dst # "none" => r.outcome = "ok" /\ Value(r.digits) <= MaxVal
        /\ last' = [Idle EXCEPT !.op = "multiply", !.lhs = a, !.rhs = b,
                                !.outcome = r.outcome, !.digits = r.digits,
                                !.addpk = r.addpk, !.mulpk = r.mulpk]
        /\ Keep(dst, r.digits)
        /\ UNCHANGED <<fibVars, numtVars>>

Next ==
    \/ \E s \in Inputs, dst \in {"a", "b"} : New(s, dst)
    \/ \E dst \in {"a", "b", "none"} : Add(dst)
    \/ \E dst \in {"a", "b", "none"} : Multiply(dst)

Spec == Init /\ [][Next]_vars

-----------------------------------------------------------------------------
(* The caller of FibonacciIterator *)

\* One call of next() on the iterator.
CallNext ==
    /\ calls < MaxCalls
    /\ LET r == next(iter)
       IN  /\ iter' = r.self
           /\ ret' = r.ret
    /\ ret1' = ret
    /\ ret2' = ret1
    /\ calls' = calls + 1
    /\ UNCHANGED <<bigVars, numtVars>>

NextFib == CallNext

SpecFib == Init /\ [][NextFib]_vars

-----------------------------------------------------------------------------
(* The callers of numt *)

\* A call of is_prime(n), in a build with overflow checks or without; the
\* call before it has returned or panicked.
IsPrime(n, checks) ==
    /\ prime.pc # "loop"
    /\ prime' = is_prime(n, checks)
    /\ UNCHANGED <<bigVars, fibVars, tri>>

\* The call goes through its loop once more.
IsPrimeLoop ==
    /\ prime.pc = "loop"
    /\ prime' = loop_pass(prime)
    /\ UNCHANGED <<bigVars, fibVars, tri>>

NextPrime ==
    \/ \E n \in 0..WordMax, checks \in BOOLEAN : IsPrime(n, checks)
    \/ IsPrimeLoop

SpecPrime == Init /\ [][NextPrime]_vars

\* triangular_number(n)
Triangular(n) ==
    /\ LET r == triangular_number(n)
       IN  tri' = [called |-> TRUE, n |-> n, outcome |-> r.outcome, value |-> r.value]
    /\ UNCHANGED <<bigVars, fibVars, prime>>

NextTri == \E n \in TriInputs : Triangular(n)

SpecTri == Init /\ [][NextTri]_vars

-----------------------------------------------------------------------------
(* Claims about BigInt, checked under Spec *)

\* C1: every BigInt the caller can come to hold, and every BigInt an
\* operation returns, is in canonical form: its digits are not empty, each
\* is in 0..9, and the last is not 0 unless the digits are exactly <<0>>.
C1_Canonical ==
    /\ Canonical(a)
    /\ Canonical(b)
    /\ last.op # "none" /\ last.outcome = "ok" => Canonical(last.digits)

\* C1's case: the caller holds 15, the product of 3 and 5, neither of which
\* is a value BigInt::new was given: both come from earlier additions.
C1_Witness ==
    /\ last.op = "multiply"
    /\ last.lhs = <<3>>
    /\ last.rhs = <<5>>
    /\ a = <<5, 1>>

\* C2 as claimed: BigInt::new of a sequence with an element outside 0..9
\* returns an error value to its caller.
C2_InvalidDigitIsErrorValue ==
    last.op = "new" /\ HasInvalidDigit(last.input) => last.outcome = "error"

\* C2 as amended: BigInt::new of a sequence with an element outside 0..9
\* panics, and no BigInt is produced.
C2_InvalidDigitPanics ==
    last.op = "new" /\ HasInvalidDigit(last.input) =>
        last.outcome = "panic" /\ last.digits = <<>>

\* C2's case: the sequence of the test bigint_with_invalid_decimal_digits.
C2_Witness ==
    /\ last.op = "new"
    /\ last.input = <<7, 8, 9, 10>>
    /\ last.outcome = "panic"

\* C3: for a sequence s of digits, BigInt::new(s) holds <<0>> when s is empty
\* or all zeros, and otherwise the elements of s up to its last non-zero one,
\* unchanged and in order.
C3_NewStripsZeros ==
    last.op = "new" /\ ~HasInvalidDigit(last.input) =>
        LET s == last.input
            r == last.digits
        IN  /\ last.outcome = "ok"
            /\ IF \A i \in 1..Len(s) : s[i] = 0
               THEN r = <<0>>
               ELSE \E n \in 1..Len(s) :
                        /\ s[n] # 0
                        /\ \A i \in (n + 1)..Len(s) : s[i] = 0
                        /\ r = SubSeq(s, 1, n)

\* C3's case: the sequence of the test bigint_removes_extra_zeros.
C3_Witness ==
    /\ last.op = "new"
    /\ last.input = <<7, 8, 9, 0, 0, 0>>
    /\ last.digits = <<7, 8, 9>>

\* C4: the digits of a.add(b) are the canonical digits of value(a) + value(b).
C4_AddIsSum ==
    last.op = "add" =>
        last.digits = ToDigits(Value(last.lhs) + Value(last.rhs))

\* C4's case: operands of different lengths and a carry out of the top
\* position, 99 + 1 = 100.
C4_Witness ==
    /\ last.op = "add"
    /\ last.lhs = <<9, 9>>
    /\ last.rhs = <<1>>
    /\ last.digits = <<0, 0, 1>>

\* C5: the digits of a.multiply(b) are the canonical digits of
\* value(a) * value(b); they are <<0>> when either operand is <<0>>.
C5_MultiplyIsProduct ==
    last.op = "multiply" =>
        /\ last.outcome = "ok"
        /\ last.digits = ToDigits(Value(last.lhs) * Value(last.rhs))
        /\ last.lhs = <<0>> \/ last.rhs = <<0>> => last.digits = <<0>>

\* C5's case: a four-digit operand times zero.
C5_Witness ==
    /\ last.op = "multiply"
    /\ last.lhs = <<7, 8, 9, 1>>
    /\ last.rhs = <<0>>
    /\ last.digits = <<0>>

\* C9: in add, carry + a[i] + b[i] is at most 19 and the carry at most 1; in
\* multiply, a[i] * b[j] + carry is at most 89 and the carry at most 8; no u8
\* operation overflows and neither operation fails.
C9_NoOverflow ==
    /\ last.op \in {"add", "multiply"} =>
        /\ last.outcome = "ok"
        /\ last.addpk.temp <= 19
        /\ last.addpk.carry <= 1
        /\ ~last.addpk.overflow
    /\ last.op = "multiply" =>
        /\ last.mulpk.p <= 89
        /\ last.mulpk.carry <= 8
        /\ ~last.mulpk.overflow

\* C9's case: 99 * 99 reaches p = 89 and carry = 8.
C9_Witness ==
    /\ last.op = "multiply"
    /\ last.lhs = <<9, 9>>
    /\ last.rhs = <<9, 9>>
    /\ last.mulpk.p = 89
    /\ last.mulpk.carry = 8

-----------------------------------------------------------------------------
(* Claims about FibonacciIterator, checked under SpecFib *)

\* C6: the first two calls of next() return 0 and 1; every later value
\* returned is the exact sum of the two returned before it and fits in a
\* u64; None is returned for the first time only when the sum of the last
\* two values returned does not fit in a u64 (so every Fibonacci number that
\* fits is returned, the largest included); and after None, None.
C6_Fibonacci ==
    /\ calls = 1 => ret = Some(Small(0))
    /\ calls = 2 => ret = Some(Small(1)) /\ ret1 = Some(Small(0))
    /\ calls >= 3 /\ ret.some =>
        /\ ret1.some /\ ret2.some
        /\ ret.val = LAdd(ret1.val, ret2.val)
        /\ LLeq(ret.val, U64Max)
    /\ calls >= 3 /\ ~ret.some /\ ret1.some =>
        /\ ret2.some
        /\ ~LLeq(LAdd(ret1.val, ret2.val), U64Max)
    /\ calls >= 2 /\ ~ret1.some => ~ret.some

\* C6's case: next() has returned 12200160415121876738, the largest
\* Fibonacci number below 2^64, then None, and None again.
C6_Witness ==
    /\ ret2 = Some(<<6738, 2187, 4151, 160, 1220>>)
    /\ ret1 = None
    /\ ret = None
    /\ calls >= 3

-----------------------------------------------------------------------------
(* Claims about numt *)

\* C7 (under SpecPrime): is_prime(n) returns, without overflow, true exactly
\* when n is prime.
C7_IsPrimeCorrect ==
    prime.pc = "done" =>
        /\ prime.outcome \in {"true", "false"}
        /\ (prime.outcome = "true") <=> Prime(prime.n)
        /\ ~prime.overflow

\* The n-th triangular number, as a number of any size.
TriangularValue(n) == LHalf(LMul(n, LAdd(n, Small(1))))

\* C8 (under SpecTri): triangular_number(n) returns Ok(n * (n + 1) / 2) when
\* that number fits in a u64, and an error exactly when it does not.
C8_TriangularExact ==
    tri.called =>
        IF LLeq(TriangularValue(tri.n), U64Max)
        THEN tri.outcome = "ok" /\ tri.value = TriangularValue(tri.n)
        ELSE tri.outcome = "err"

====
